---------------------------- MODULE Spec2Model ----------------------------
(***************************************************************************)
(* small-cuckoo: a cuckoo hash table for fewer than 64k keys.              *)
(*                                                                         *)
(* The model follows the portable build of the library (hash_2 built on    *)
(* Bob Jenkins's hashword, the #else branch of __SSE4_2__) on a            *)
(* little-endian host with a 64-bit size_t and a 32-bit int.               *)
(*                                                                         *)
(* Numbers.  TLC's integers are 32 bits wide, so a uint32_t is a pair      *)
(* <<lo, hi>> of 16-bit limbs and a uint64_t is a tuple <<l0,l1,l2,l3>> of *)
(* 16-bit limbs, least significant first (the order of the bytes in        *)
(* memory on the modelled host).                                           *)
(***************************************************************************)
EXTENDS Integers, Sequences, FiniteSets, TLC

\* 2^16: the number of values of a uint16_t and of one limb.
W16 == 65536

Pow2(e) == 2 ^ e

\* (uint16_t) x
Trunc16(x) == x % W16

(***************************************************************************)
(* Bitwise operators of C on naturals, bit by bit.                         *)
(***************************************************************************)
RECURSIVE BitXor(_, _)
BitXor(a, b) ==
    IF a = 0 THEN b
    ELSE IF b = 0 THEN a
    ELSE ((a + b) % 2) + 2 * BitXor(a \div 2, b \div 2)

RECURSIVE BitOr(_, _)
BitOr(a, b) ==
    IF a = 0 THEN b
    ELSE IF b = 0 THEN a
    ELSE (IF a % 2 = 1 \/ b % 2 = 1 THEN 1 ELSE 0) + 2 * BitOr(a \div 2, b \div 2)

(***************************************************************************)
(* uint32_t arithmetic on <<lo, hi>>.                                      *)
(***************************************************************************)
Lo(w) == w[1]
Hi(w) == w[2]

Add32(a, b) ==
    <<(Lo(a) + Lo(b)) % W16,
      (Hi(a) + Hi(b) + (Lo(a) + Lo(b)) \div W16) % W16>>

Sub32(a, b) ==
    <<(Lo(a) - Lo(b) + W16) % W16,
      (Hi(a) - Hi(b) - (IF Lo(a) < Lo(b) THEN 1 ELSE 0) + 2 * W16) % W16>>

Xor32(a, b) == <<BitXor(Lo(a), Lo(b)), BitXor(Hi(a), Hi(b))>>

\* x with its halves exchanged when k >= 16: a rotation by 16.
Halves(x, k) == IF k >= 16 THEN <<Hi(x), Lo(x)>> ELSE x

\* The low 16 - r bits of v moved up by r, and the r bits above them.
Up(v, r) == (v % Pow2(16 - r)) * Pow2(r)
Down(v, r) == v \div Pow2(16 - r)

\* A rotation to the left by r < 16.
RotLow(y, r) ==
    IF r = 0 THEN y
    ELSE <<Up(Lo(y), r) + Down(Hi(y), r), Up(Hi(y), r) + Down(Lo(y), r)>>

\* rot(x,k): (((x)<<(k)) | ((x)>>(32-(k)))), 0 < k < 32
Rot32(x, k) == RotLow(Halves(x, k), k % 16)

\* h * M + byte, in uint32_t
MulAdd32(h, m, byte) ==
    <<(Lo(h) * m + byte) % W16,
      (Hi(h) * m + (Lo(h) * m + byte) \div W16) % W16>>

\* The bytes of a uint64_t in memory: s[0] .. s[7] of (uint8_t *)&key.
ByteOf(key, j) ==
    IF j % 2 = 0 THEN key[(j \div 2) + 1] % 256 ELSE key[(j \div 2) + 1] \div 256

\* The two uint32_t words of a uint64_t in memory: k[0], k[1].
WordOf(key, j) == <<key[2 * j + 1], key[2 * j + 2]>>

\* x & (m - 1) for m a power of two; m = 0 makes m - 1 the all-ones mask.
AndMask(x, m) == IF m = 0 THEN x ELSE x % m

\* h ^ (h>>16), the low 16 bits
Fold16(h) == BitXor(Lo(h), Hi(h))

(***************************************************************************)
(* larsons_hash                                                            *)
(***************************************************************************)
LarsonSeed == <<48879, 57005>>          \* 0xdeadbeef

LarsonM == 101

RECURSIVE LarsonRound(_, _, _)
LarsonRound(h, key, j) ==
    IF j = 7 THEN h
    ELSE LarsonRound(MulAdd32(h, LarsonM, ByteOf(key, j)), key, j + 1)

\* return h ^ (h>>16), as uint16_t
larsons_hash(key) == Fold16(LarsonRound(LarsonSeed, key, 0))

\* A hash_1 that does not mask the hash with (n>>1)-1.
hash_1_unmasked(n, key) == Trunc16(larsons_hash(key) * 2)

hash_1(n, key) == Trunc16(AndMask(larsons_hash(key), n \div 2) * 2)

(***************************************************************************)
(* hashword(k, 2, initval) and hash_2                                      *)
(***************************************************************************)
\* The statements of final(a,b,c), each 'x ^= y; x -= rot(y,k)' as
\* <<x, y, k>> with 1, 2, 3 for a, b, c.
FinalSteps ==
    << <<3, 2, 14>>, <<1, 3, 11>>, <<2, 1, 25>>, <<3, 2, 16>>,
       <<1, 3, 4>>, <<2, 1, 14>>, <<3, 2, 24>> >>

\* x ^= y; x -= rot(y,k) on s = <<a, b, c>>
FinalStep(s, st) ==
    [s EXCEPT ![st[1]] = Sub32(Xor32(s[st[1]], s[st[2]]), Rot32(s[st[2]], st[3]))]

\* final(a,b,c) from statement j on: s is <<a, b, c>>
RECURSIVE JenkinsFinal(_, _)
JenkinsFinal(s, j) ==
    IF j > Len(FinalSteps) THEN s
    ELSE JenkinsFinal(FinalStep(s, FinalSteps[j]), j + 1)

\* The switch of hashword for length = 2, a = b = c = init before it:
\* b += k[1]; a += k[0]; final(a,b,c); return c.
HashwordSwitch(init, k0, k1) ==
    JenkinsFinal(<<Add32(init, k0), Add32(init, k1), init>>, 1)[3]

\* hashword for length = 2: no round of the for loop.
hashword(k0, k1, initval) ==
    HashwordSwitch(Add32(Add32(LarsonSeed, <<8, 0>>), initval), k0, k1)

Hash2Init == <<21845, 21845>>           \* 0x55555555

\* h ^= (h>>16); return 1 + ((h & (m-1))<<1) as uint16_t, m being n>>1: bits
\* 16..31 of h are masked or shifted out of the result either way.
Hash2Slot(h, m) ==
    Trunc16(1 + (IF m = 0 \/ m > W16 THEN Fold16(h) ELSE AndMask(Fold16(h), m)) * 2)

\* hash_2 on the eight bytes that hashword reads at &key.
hash_2(n, key) ==
    Hash2Slot(hashword(WordOf(key, 0), WordOf(key, 1), Hash2Init), n \div 2)

(***************************************************************************)
(* ceil_pow2 (bithacks.h), on a 64-bit size_t                              *)
(***************************************************************************)
Smear(x, k) == BitOr(x, x \div Pow2(k))

ceil_pow2(x) ==
    IF x = 0 THEN 0
    ELSE Smear(Smear(Smear(Smear(Smear(x - 1, 1), 2), 4), 8), 16) + 1

(***************************************************************************)
(* Bounds of the model.                                                    *)
(***************************************************************************)
\* small_cuckoo_insert is called at most this many times in a run.
MaxInserts == 3

\* calloc returns NULL for a slot table of more than 2^MaxTableLog2 slots.
MaxTableLog2 == 18

\* small_cuckoo_iter_next is called at most this many times on one iterator.
MaxNext == 4

\* small_cuckoo_iterate is called at most this many times in a run.
MaxIterators == 2

\* StoreSpec: small_cuckoo_insert is called at most this many times.
MaxStored == 65534

(***************************************************************************)
(* Inputs.                                                                 *)
(***************************************************************************)
\* Capacity hints passed to small_cuckoo_new.
Hints == {0, 9, 17}

\* Capacity hints passed to small_cuckoo_new in StoreSpec.
StoreHints == {0, 2}

K42  == <<42, 0, 0, 0>>                 \* 42
KA   == <<279, 0, 0, 8960>>             \* 0x2300000000000117
KB   == <<279, 0, 0, 13056>>            \* 0x3300000000000117
KC   == <<279, 0, 0, 17664>>            \* 0x4500000000000117
K279 == <<279, 0, 0, 0>>                \* 0x117, the low half of KA, KB and KC
K7   == <<7, 0, 0, 0>>                  \* 7

\* Keys passed to small_cuckoo_insert.
Keys == {K42, KA, KB, KC}

\* Keys passed to small_cuckoo_find.
FindKeys == Keys \cup {K279, K7}

\* RehashSpec: three keys that share both slots at every table_size up to 64
\* and no two of which share both at 128.
K1253 == <<1253, 0, 0, 0>>
K1508 == <<1508, 0, 0, 0>>
K965  == <<965, 0, 0, 0>>

RehashKeys == {K1253, K1508, K965}

\* The value each key is inserted with: 100 with 42, and with the others a
\* value that needs more than 32 bits.
ValueOf(key) ==
    IF key = K42 THEN <<100, 0, 0, 0>> ELSE <<key[4], 0, 1, 0>>

(***************************************************************************)
(* The program state the operations work on: the fields of struct          *)
(* small_cuckoo, the number of elements the allocator gave to table and to *)
(* entries, and how the process stands.  kicks is not a field: it is the   *)
(* largest number of occupants that one run of insert's loop took in hand  *)
(* during the last small_cuckoo_insert or small_cuckoo_deserialize.        *)
(*                                                                         *)
(* table is kept sparse: a function from the nonzero slots to their        *)
(* contents; every other slot of the array holds 0.                        *)
(***************************************************************************)
MAX_LOOPS == 20

\* An indeterminate uint64_t: memory from malloc that was never written.
Uninit == <<-1, -1, -1, -1>>

UninitEntry == [key |-> Uninit, value |-> Uninit]

EmptyTable == <<>>

TableAt(table, h) == IF h \in DOMAIN table THEN table[h] ELSE 0

TableSet(table, h, v) == (h :> v) @@ table

\* The slots that hold an entry index.
Occupied(table) == {s \in DOMAIN table : table[s] # 0}

\* The same array with its zero slots left out of the sparse function.
Compact(table) ==
    IF Occupied(table) = DOMAIN table THEN table
    ELSE [s \in Occupied(table) |-> table[s]]

\* Elements from .. to - 1 of a block the allocator hands out unwritten.
RECURSIVE Malloc(_, _)
Malloc(from, to) ==
    IF from >= to THEN <<>> ELSE (from :> UninitEntry) @@ Malloc(from + 1, to)

\* Elements from .. to - 1 of entries.
RECURSIVE Kept(_, _, _)
Kept(entries, from, to) ==
    IF from >= to THEN <<>>
    ELSE (from :> entries[from]) @@ Kept(entries, from + 1, to)

\* A realloc that copies the key of every element and not its value.
ReallocKeysOnly(entries, old, new) ==
    IF new >= old
    THEN [j \in DOMAIN entries |-> [key |-> entries[j].key, value |-> Uninit]]
         @@ Malloc(old, new)
    ELSE Kept(entries, 0, new)

\* realloc: the elements below both the old and the new length are kept.
Realloc(entries, old, new) ==
    IF new >= old THEN entries @@ Malloc(old, new) ELSE Kept(entries, 0, new)

Fault(p, what) == [p EXCEPT !.status = what]

\* What hashword reads at (const uint32_t *)&key in hash_2.  key is a
\* uint64_t object read through a uint32_t lvalue; a compiler that relies on
\* the aliasing rules need not store key before the read (gcc 12 -O2 does
\* not), and hashword then reads what the stack held before.  A build
\* either reads the key at every call or reads stale bytes at every call.
Hash2Builds == {"key", "stale"}

Hash2Views(b) == IF b = "key" THEN {"key"} ELSE {"stale0", "stale1"}

StaleStack(view) ==
    IF view = "stale0" THEN <<0, 0, 0, 0>> ELSE <<42405, 42405, 0, 0>>

Hash2Reads(key, view) == IF view = "key" THEN key ELSE StaleStack(view)

\* 1 << s in int.  A shift by 32 or more is undefined: the shift instruction
\* either takes the count modulo 32 (x86, AArch64) or shifts every bit out
\* (ARM, PowerPC).
ShiftLeftInt(s) == IF s < 31 THEN {Pow2(s)} ELSE {Pow2(s % 32), 0}

(***************************************************************************)
(* hash_1 and hash_2 tabulated once for the table sizes and keys of the    *)
(* model; H1 and H2 are hash_1 and hash_2 read from the tables.            *)
(***************************************************************************)
TabulatedSizes == {0} \cup {Pow2(e) : e \in 1 .. MaxTableLog2 + 1}

TabulatedKeys ==
    FindKeys \cup RehashKeys \cup {StaleStack("stale0"), StaleStack("stale1")}

\* hash_1 and hash_2 of size n at the keys of S.
RECURSIVE Hash1Row(_, _)
Hash1Row(n, S) ==
    IF S = {} THEN <<>>
    ELSE LET key == CHOOSE x \in S : TRUE
         IN  (key :> hash_1(n, key)) @@ Hash1Row(n, S \ {key})

RECURSIVE Hash2Row(_, _)
Hash2Row(n, S) ==
    IF S = {} THEN <<>>
    ELSE LET key == CHOOSE x \in S : TRUE
         IN  (key :> hash_2(n, key)) @@ Hash2Row(n, S \ {key})

RECURSIVE Hash1Rows(_)
Hash1Rows(S) ==
    IF S = {} THEN <<>>
    ELSE LET n == CHOOSE x \in S : TRUE
         IN  (n :> Hash1Row(n, TabulatedKeys)) @@ Hash1Rows(S \ {n})

RECURSIVE Hash2Rows(_)
Hash2Rows(S) ==
    IF S = {} THEN <<>>
    ELSE LET n == CHOOSE x \in S : TRUE
         IN  (n :> Hash2Row(n, TabulatedKeys)) @@ Hash2Rows(S \ {n})

Hash1Table == Hash1Rows(TabulatedSizes)

Hash2Table == Hash2Rows(TabulatedSizes)

H1(n, key) ==
    IF n \in TabulatedSizes /\ key \in TabulatedKeys THEN Hash1Table[n][key]
    ELSE hash_1(n, key)

H2(n, key) ==
    IF n \in TabulatedSizes /\ key \in TabulatedKeys THEN Hash2Table[n][key]
    ELSE hash_2(n, key)

(***************************************************************************)
(* insert and double_size                                                  *)
(***************************************************************************)
\* sc->entries[i].key is readable: i is inside the allocation and written.
KeyReadable(p, i) == i < p.entries_alloc /\ p.entries[i].key # Uninit

KeyFault(p, i) ==
    IF i < p.entries_alloc THEN Fault(p, "ub:uninit") ELSE Fault(p, "ub:entries")

\* An X(fn) that takes the occupant of slot h and leaves i out of the table.
XSwapDrops(p, i, h) ==
    IF h >= p.table_alloc
    THEN [p |-> Fault(p, "ub:table"), i |-> i]
    ELSE [p |-> p, i |-> TableAt(p.table, h)]

\* The three xors of X(fn) at slot h: i and sc->table[h] change places.
XSwap(p, i, h) ==
    IF h >= p.table_alloc
    THEN [p |-> Fault(p, "ub:table"), i |-> i]
    ELSE [p |-> [p EXCEPT !.table = TableSet(@, h, i)],
          i |-> TableAt(p.table, h)]

\* The occupied slots of a table in ascending order.
RECURSIVE SlotsAscending(_)
SlotsAscending(S) ==
    IF S = {} THEN <<>>
    ELSE LET m == CHOOSE x \in S : \A y \in S : x <= y
         IN  <<m>> \o SlotsAscending(S \ {m})

RECURSIVE insert(_, _, _)
RECURSIVE Run(_, _, _)

\* The second X of a round of the loop, a being the outcome of the first.
SecondSwap(a, view) ==
    IF a.p.status # "ok" \/ a.i = 0 THEN a
    ELSE IF ~KeyReadable(a.p, a.i) THEN [p |-> KeyFault(a.p, a.i), i |-> a.i]
    ELSE XSwap(a.p, a.i, H2(a.p.table_size,
                            Hash2Reads(a.p.entries[a.i].key, view)))

\* How many of the two X of a round put an occupant in hand: a is the
\* outcome of the first X and b of the round.
Kicked(a, b) ==
    IF a.p.status # "ok" \/ a.i = 0 THEN 0
    ELSE IF b.p.status # "ok" \/ b.i = 0 THEN 1
    ELSE 2

Larger(x, y) == IF x >= y THEN x ELSE y

\* The call of insert after a round that ended as b: it has returned (the
\* return inside X, or the program stopped) or has a round less left.
RoundEnd(m, a, b) ==
    [p |-> [b.p EXCEPT !.kicks = Larger(@, m.k + Kicked(a, b))],
     i |-> b.i,
     n |-> m.n - 1,
     k |-> m.k + Kicked(a, b),
     done |-> b.p.status # "ok" \/ b.i = 0]

\* The second X and the end of the round, a being the outcome of the first.
RoundFrom(m, a, view) == RoundEnd(m, a, SecondSwap(a, view))

\* One round of the for loop of insert: X(hash_1), X(hash_2).  m is the call
\* in progress: the table, the index in hand, the rounds left, the occupants
\* taken in hand since the loop started, and whether the call has returned.
Round(m, view) ==
    IF ~KeyReadable(m.p, m.i)
    THEN [m EXCEPT !.p = KeyFault(m.p, m.i), !.done = TRUE]
    ELSE RoundFrom(m, XSwap(m.p, m.i, H1(m.p.table_size, m.p.entries[m.i].key)),
                   view)

\* The loop of double_size over the occupied slots of prev_table.
RECURSIVE Reinsert(_, _, _, _)
Reinsert(p, prev, slots, view) ==
    IF p.status # "ok" \/ slots = <<>> THEN p
    ELSE Reinsert(insert(p, prev[Head(slots)], view), prev, Tail(slots), view)

\* The loop runs while i < sc->table_size>>1, read anew in every round: once
\* a reinsertion has doubled the table again the loop runs past the end of
\* prev_table, which had prev_len elements.
Overrun(r, prev_len) ==
    IF r.status = "ok" /\ r.table_size \div 2 > prev_len
    THEN Fault(r, "ub:prev_table")
    ELSE r

double_size(p, view) ==
    IF p.table_size * 2 > Pow2(MaxTableLog2) THEN Fault(p, "abort:calloc")
    ELSE Overrun(Reinsert([p EXCEPT !.table_size = p.table_size * 2,
                                    !.table = EmptyTable,
                                    !.table_alloc = p.table_size * 2],
                          p.table, SlotsAscending(Occupied(p.table)), view),
                 p.table_alloc)

\* insert(sc, i) called again on the table d that double_size left.
Retry(m, d) ==
    [p |-> d, i |-> m.i, n |-> MAX_LOOPS, k |-> 0, done |-> d.status # "ok"]

\* An insert that gives up after one round of the loop.
StepGivesUpEarly(m, view) ==
    IF m.n = MAX_LOOPS THEN Round(m, view) ELSE Retry(m, double_size(m.p, view))

\* The next thing insert does: a round of the loop, or, with no round left,
\* double_size and the call of insert that starts the loop again.
Step(m, view) ==
    IF m.n > 0 THEN Round(m, view) ELSE Retry(m, double_size(m.p, view))

\* Up to k steps of insert, the first half before the second.
Run(m, k, view) ==
    IF m.done THEN m
    ELSE IF k = 1 THEN Step(m, view)
    ELSE Run(Run(m, k \div 2, view), k - k \div 2, view)

\* No call of insert takes more steps than this: MAX_LOOPS rounds and one
\* double_size for every size the table can have.
InsertSteps == (MAX_LOOPS + 1) * (MaxTableLog2 + 2)

insert(p, i, view) ==
    IF p.status # "ok" THEN p
    ELSE Run([p |-> p, i |-> i, n |-> MAX_LOOPS, k |-> 0, done |-> FALSE],
             InsertSteps, view).p

(***************************************************************************)
(* small_cuckoo_new, small_cuckoo_insert, small_cuckoo_find                *)
(***************************************************************************)
New(initial_size, size) ==
    LET len == Trunc16(1 + initial_size)
    IN  [table_size |-> size,
         table |-> EmptyTable,
         table_alloc |-> size,
         n_entries |-> 1,
         entries_len |-> len,
         entries |-> Malloc(0, len),
         entries_alloc |-> len,
         kicks |-> 0,
         status |-> "ok"]

\* realloc(sc->entries, 0) frees the block and returns NULL (glibc), which
\* ENSURE turns into abort, or returns a block of no bytes.
ReallocZero == {"null", "block"}

\* Lines 200-206: the index the pair gets, the new n_entries and entries_len.
Indexing(n_entries, entries_len) ==
    LET n1 == Trunc16(n_entries + 1)
        grow == n1 >= entries_len
    IN  [i |-> n_entries,
         n_entries |-> n1,
         grow |-> grow,
         entries_len |-> IF grow THEN Trunc16(entries_len * 2) ELSE entries_len]

\* Lines 199-208 on the counters: how the write to entries[i] ends, x being
\* the outcome of Indexing and alloc the length of the entry store.
WriteOutcome(x, alloc, zero) ==
    IF x.i = 0 THEN "abort:ensure"
    ELSE IF x.grow /\ x.entries_len = 0 /\ zero = "null" THEN "abort:realloc"
    ELSE IF x.i >= alloc THEN "ub:entries"
    ELSE "ok"

\* Lines 203-206: the counters updated, the entry store reallocated.
Grown(p, x) ==
    [p EXCEPT !.n_entries = x.n_entries,
              !.entries_len = x.entries_len,
              !.entries_alloc = IF x.grow THEN x.entries_len ELSE @,
              !.entries = IF x.grow
                          THEN Realloc(@, p.entries_alloc, x.entries_len)
                          ELSE @]

\* Lines 199-208 with the outcome st of the write.
Stored(p, q, x, st, key, value) ==
    IF st = "abort:ensure" THEN Fault(p, st)
    ELSE IF st # "ok" THEN Fault(q, st)
    ELSE [q EXCEPT !.entries = (x.i :> [key |-> key, value |-> value]) @@ @]

StoredAt(p, q, x, key, value, zero) ==
    Stored(p, q, x, WriteOutcome(x, q.entries_alloc, zero), key, value)

\* Lines 199-208: the pair is appended to the entry store.
AppendEntry(p, key, value, zero) ==
    StoredAt(p, Grown(p, Indexing(p.n_entries, p.entries_len)),
             Indexing(p.n_entries, p.entries_len), key, value, zero)

Insert(p, key, value, zero, view) ==
    insert([AppendEntry(p, key, value, zero) EXCEPT !.kicks = 0], p.n_entries, view)

NotFound(status) == [status |-> status, found |-> FALSE, value |-> Uninit]

\* The macro X of small_cuckoo_find with i = sc->table[h] read.
ProbeAt(p, i, key) ==
    IF i = 0 THEN NotFound("ok")
    ELSE IF ~KeyReadable(p, i) THEN NotFound(KeyFault(p, i).status)
    ELSE IF p.entries[i].key = key
         THEN [status |-> "ok", found |-> TRUE, value |-> p.entries[i].value]
    ELSE NotFound("ok")

\* One expansion of the macro X(h) of small_cuckoo_find.
Probe(p, h, key) ==
    IF h >= p.table_alloc THEN NotFound("ub:table")
    ELSE ProbeAt(p, TableAt(p.table, h), key)

\* X(hash_2(...)) after the first expansion has ended as a.
SecondProbe(p, a, key, view) ==
    IF a.status # "ok" \/ a.found THEN a
    ELSE Probe(p, H2(p.table_size, Hash2Reads(key, view)), key)

Find(p, key, view) ==
    SecondProbe(p, Probe(p, H1(p.table_size, key), key), key, view)

\* A small_cuckoo_find that takes what it finds out of the slot table.
FindTakes(p, r) ==
    IF r.found THEN [p EXCEPT !.table = EmptyTable]
    ELSE IF r.status = "ok" THEN p ELSE Fault(p, r.status)

\* The small_cuckoo after small_cuckoo_find has ended as r: X reads
\* sc->table[h] and sc->entries[i] and assigns only to i and *value.
FindLeaves(p, r) == IF r.status = "ok" THEN p ELSE Fault(p, r.status)

(***************************************************************************)
(* small_cuckoo_serialize and small_cuckoo_deserialize                     *)
(***************************************************************************)
\* Bytes the program never wrote: malloc'ed memory, the stack next to u.
Garbage == {0, 165}

\* WRITE_UNDER(htole16, x, 2): the two bytes of u.
Write16(x) == <<x % 256, x \div 256>>

\* WRITE_UNDER(htole64, x, 8): u is a uint32_t, so it holds the low 32 bits of
\* x, and write(fd, &u, 8) sends its four bytes and the four bytes behind it.
Write64(x, g) ==
    <<x[1] % 256, x[1] \div 256, x[2] % 256, x[2] \div 256, g, g, g, g>>

\* An indeterminate uint64_t read as the bytes the memory happens to hold.
Held(x, g) == IF x = Uninit THEN <<g + 256 * g, g + 256 * g, g + 256 * g, g + 256 * g>> ELSE x

RECURSIVE WriteEntries(_, _, _, _)
WriteEntries(p, i, n, g) ==
    IF i >= n THEN <<>>
    ELSE Write64(Held(p.entries[i].key, g), g)
         \o Write64(Held(p.entries[i].value, g), g)
         \o WriteEntries(p, i + 1, n, g)

\* The serializer of the format with no record for entry 0.
SerializeLiveOnly(p, g) == Write16(p.n_entries) \o WriteEntries(p, 1, p.n_entries, g)

Serialize(p, g) == Write16(p.n_entries) \o WriteEntries(p, 0, p.n_entries, g)

\* READ_AND(le16toh, v, 2) at offset o (0-based) of the stream.
Read16(bytes, o) == bytes[o + 1] + 256 * bytes[o + 2]

\* READ_AND(le64toh, v, 8): read puts eight bytes at &u, a uint32_t, and v is
\* le64toh(u): the first four bytes, zero-extended.
Read64(bytes, o) ==
    <<bytes[o + 1] + 256 * bytes[o + 2], bytes[o + 3] + 256 * bytes[o + 4], 0, 0>>

RECURSIVE ReadEntries(_, _, _)
ReadEntries(bytes, i, n) ==
    IF i >= n THEN <<>>
    ELSE (i :> [key |-> Read64(bytes, 2 + 16 * i), value |-> Read64(bytes, 10 + 16 * i)])
         @@ ReadEntries(bytes, i + 1, n)

\* What malloc may hand out for sc->table: zeroed memory, or memory in which
\* an earlier owner left something.
JunkTables == {EmptyTable, (1 :> 1), (0 :> 65535)}

RECURSIVE InsertAll(_, _, _, _)
InsertAll(p, i, n, view) ==
    IF p.status # "ok" \/ i >= n THEN p
    ELSE InsertAll(insert(p, i, view), i + 1, n, view)

\* The entry count at the head of the stream.
CountOf(bytes) == IF Len(bytes) < 2 THEN 0 ELSE Read16(bytes, 0)

\* read returns less than was asked for.
Short(bytes) == Len(bytes) < 2 + 16 * CountOf(bytes)

\* Lines 250-260: the small_cuckoo before the indices are placed.  size is
\* the value of 1<<(ceil_pow2(sc->n_entries)+1) and junk the contents of the
\* malloc'ed table.
Read(bytes, size, junk) ==
    [table_size |-> size,
     table |-> IF size < 2 THEN EmptyTable ELSE junk,
     table_alloc |-> size,
     n_entries |-> CountOf(bytes),
     entries_len |-> 0,
     entries |-> IF Short(bytes) THEN <<>>
                 ELSE ReadEntries(bytes, 0, CountOf(bytes)),
     entries_alloc |-> CountOf(bytes),
     kicks |-> 0,
     status |-> IF Short(bytes) THEN "abort:read" ELSE "ok"]

\* smash: the four bytes that read writes past u hit something live.
Deserialize(bytes, size, junk, smash, view) ==
    IF smash /\ ~Short(bytes) /\ CountOf(bytes) > 0
    THEN Fault(Read(bytes, size, junk), "ub:stack")
    ELSE InsertAll(Read(bytes, size, junk), 0, CountOf(bytes), view)

(***************************************************************************)
(* The iterator                                                            *)
(***************************************************************************)
\* The occupied slots the loop of has_next and next can still reach from i
\* without iter->i wrapping.
Ahead(p, i) == {s \in Occupied(p.table) : s >= i /\ s < p.table_size}

Least(S) == CHOOSE x \in S : \A y \in S : x <= y

\* The loop shared by has_next and next.  iter->i is a uint16_t, so ++iter->i
\* goes from 65535 to 0, and iter->i < table_size holds for every i once
\* table_size is more than 65535.  The result is the slot the loop stops at,
\* or "end" (i reached table_size) or "never" (the loop does not end).
Scan(p, i) ==
    IF Ahead(p, i) # {} THEN [at |-> "slot", i |-> Least(Ahead(p, i))]
    ELSE IF p.table_size < W16
         THEN [at |-> "end", i |-> IF i < p.table_size THEN p.table_size ELSE i]
    ELSE IF Ahead(p, 0) # {} THEN [at |-> "slot", i |-> Least(Ahead(p, 0))]
    ELSE [at |-> "never", i |-> i]

(***************************************************************************)
(* The state machine: one caller working on one small_cuckoo.              *)
(***************************************************************************)
VARIABLES
    build,      \* how the build reads the key in hash_2
    phase,      \* where the caller is: "start", "built", "saved", "loaded",
                \* "freed"
    sc,         \* the small_cuckoo and its allocations
    stream,     \* the bytes small_cuckoo_serialize wrote
    written,    \* the small_cuckoo as it was when the stream was written
    inserted,   \* the keys passed to small_cuckoo_insert, in call order
    iter,       \* the small_cuckoo_iter and what the caller got from it
    ret,        \* what the last call returned to the caller
    store,      \* StoreSpec: the counters of the entry store
    hashed      \* HashSpec: the arguments and results of hash_1 and hash_2

vars == <<build, phase, sc, stream, written, inserted, iter, ret, store, hashed>>

NoTable == New(0, 0)

NoIter == [live |-> FALSE, i |-> 0, loop |-> TRUE, yielded |-> <<>>,
           made |-> 0, first |-> <<>>]

NoRet == [op |-> "none", ok |-> FALSE, key |-> Uninit, value |-> Uninit]

NoHash == [called |-> FALSE, n |-> 0, key |-> Uninit, h1 |-> 0, h2 |-> 0]

NoStore == [hint |-> 0, i |-> 0, n_entries |-> 0, entries_len |-> 0, entries_alloc |-> 0,
            was_len |-> 0, calls |-> 0, status |-> "unused"]

Init ==
    /\ build \in Hash2Builds
    /\ phase = "start"
    /\ sc = NoTable
    /\ stream = <<>>
    /\ written = NoTable
    /\ inserted = <<>>
    /\ iter = NoIter
    /\ ret = NoRet
    /\ store = NoStore
    /\ hashed = NoHash

Running == phase \in {"built", "loaded"} /\ sc.status = "ok"

InsertedKeys == {inserted[j] : j \in 1 .. Len(inserted)}

\* The outcomes realloc can have in this call.
ReallocOutcomes(p) ==
    IF Indexing(p.n_entries, p.entries_len).entries_len = 0 THEN ReallocZero
    ELSE {"block"}

small_cuckoo_new ==
    /\ phase = "start"
    /\ \E initial_size \in Hints :
         \E size \in ShiftLeftInt(ceil_pow2(initial_size) + 1) :
           sc' = New(initial_size, size)
    /\ phase' = "built"
    /\ ret' = NoRet
    /\ UNCHANGED <<build, stream, written, inserted, iter, store, hashed>>

small_cuckoo_insert ==
    /\ Running
    /\ iter.made = 0
    /\ Len(inserted) < MaxInserts
    /\ \E key \in Keys \ InsertedKeys :
         \E zero \in ReallocOutcomes(sc), view \in Hash2Views(build) :
           /\ \E q \in {Insert(sc, key, ValueOf(key), zero, view)} :
                sc' = [q EXCEPT !.table = Compact(@)]
           /\ inserted' = Append(inserted, key)
    /\ ret' = NoRet
    /\ UNCHANGED <<build, phase, stream, written, iter, store, hashed>>

small_cuckoo_find ==
    /\ Running
    /\ iter.made = 0
    /\ \E key \in FindKeys, view \in Hash2Views(build) :
         \E r \in {Find(sc, key, view)} :
           /\ ret' = [op |-> "find", ok |-> r.found, key |-> key, value |-> r.value]
           /\ sc' = FindLeaves(sc, r)
    /\ UNCHANGED <<build, phase, stream, written, inserted, iter, store, hashed>>

small_cuckoo_serialize ==
    /\ phase = "built"
    /\ sc.status = "ok"
    /\ iter.made = 0
    /\ \E g \in Garbage : stream' = Serialize(sc, g)
    /\ written' = sc
    /\ phase' = "saved"
    /\ ret' = NoRet
    /\ UNCHANGED <<build, sc, inserted, iter, store, hashed>>

small_cuckoo_deserialize ==
    /\ phase = "saved"
    /\ \E size \in ShiftLeftInt(ceil_pow2(Read16(stream, 0)) + 1) :
         \E junk \in JunkTables, smash \in BOOLEAN, view \in Hash2Views(build) :
           \E q \in {Deserialize(stream, size, junk, smash, view)} :
             sc' = [q EXCEPT !.table = Compact(@)]
    /\ phase' = "loaded"
    /\ ret' = NoRet
    /\ UNCHANGED <<build, stream, written, inserted, iter, store, hashed>>

small_cuckoo_iterate ==
    /\ Running
    /\ iter.made < MaxIterators
    /\ iter' = [NoIter EXCEPT !.live = TRUE,
                              !.made = iter.made + 1,
                              !.first = iter.yielded]
    /\ ret' = NoRet
    /\ UNCHANGED <<build, phase, sc, stream, written, inserted, store, hashed>>

small_cuckoo_iter_has_next ==
    /\ Running
    /\ iter.live
    /\ \E r \in {Scan(sc, iter.i)} :
         IF r.at = "never"
         THEN /\ sc' = Fault(sc, "hang:has_next")
              /\ ret' = NoRet
              /\ iter' = iter
         ELSE /\ sc' = sc
              /\ ret' = [NoRet EXCEPT !.op = "has_next", !.ok = (r.at = "slot")]
              /\ iter' = [iter EXCEPT !.i = r.i]
    /\ UNCHANGED <<build, phase, stream, written, inserted, store, hashed>>

small_cuckoo_iter_next ==
    /\ Running
    /\ iter.live
    /\ Len(iter.yielded) < MaxNext
    /\ \E r \in {Scan(sc, iter.i)} :
         \E j \in {TableAt(sc.table, r.i)} :
           IF r.at = "never"
           THEN /\ sc' = Fault(sc, "hang:next")
                /\ ret' = NoRet
                /\ iter' = iter
           ELSE IF r.at = "end"
           THEN /\ sc' = Fault(sc, "abort:next")
                /\ ret' = NoRet
                /\ iter' = [iter EXCEPT !.i = r.i]
           ELSE IF ~KeyReadable(sc, j)
           THEN /\ sc' = KeyFault(sc, j)
                /\ ret' = NoRet
                /\ iter' = [iter EXCEPT !.i = r.i]
           ELSE /\ sc' = sc
                /\ ret' = [op |-> "next", ok |-> TRUE,
                           key |-> sc.entries[j].key,
                           value |-> sc.entries[j].value]
                /\ iter' = [iter EXCEPT
                              !.i = Trunc16(r.i + 1),
                              !.loop = @ /\ ret.op = "has_next" /\ ret.ok,
                              !.yielded = Append(@, <<sc.entries[j].key,
                                                      sc.entries[j].value>>)]
    /\ UNCHANGED <<build, phase, stream, written, inserted, store, hashed>>

small_cuckoo_free ==
    /\ Running
    /\ sc' = NoTable
    /\ phase' = "freed"
    /\ iter' = [iter EXCEPT !.live = FALSE]
    /\ ret' = NoRet
    /\ UNCHANGED <<build, stream, written, inserted, store, hashed>>

Next ==
    \/ small_cuckoo_new
    \/ small_cuckoo_free
    \/ small_cuckoo_insert
    \/ small_cuckoo_find
    \/ small_cuckoo_serialize
    \/ small_cuckoo_deserialize
    \/ small_cuckoo_iterate
    \/ small_cuckoo_iter_has_next
    \/ small_cuckoo_iter_next

Spec == Init /\ [][Next]_vars

(***************************************************************************)
(* StoreSpec: the counters of the entry store alone, over the 65,534       *)
(* inserts the table is meant to take.  The pairs and the slot table are   *)
(* left out: lines 200-206 read and write only n_entries and entries_len.  *)
(***************************************************************************)
StoreInit == Init /\ build = "key"

StoreNew ==
    /\ store.status = "unused"
    /\ \E initial_size \in StoreHints :
         \E p \in {New(initial_size, 2)} :
           store' = [hint |-> initial_size, i |-> 0, n_entries |-> p.n_entries,
                     entries_len |-> p.entries_len,
                     entries_alloc |-> p.entries_len,
                     was_len |-> p.entries_len, calls |-> 0, status |-> "ok"]
    /\ UNCHANGED <<build, phase, sc, stream, written, inserted, iter, ret, hashed>>

StoreInsert ==
    /\ store.status = "ok"
    /\ store.calls < MaxStored
    /\ \E x \in {Indexing(store.n_entries, store.entries_len)} :
         \E zero \in IF x.entries_len = 0 THEN ReallocZero ELSE {"block"} :
           store' = [hint |-> store.hint, i |-> x.i, n_entries |-> x.n_entries,
                     entries_len |-> x.entries_len,
                     entries_alloc |-> IF x.grow THEN x.entries_len
                                       ELSE store.entries_alloc,
                     was_len |-> store.entries_len,
                     calls |-> store.calls + 1,
                     status |-> WriteOutcome(x, IF x.grow THEN x.entries_len
                                                        ELSE store.entries_alloc,
                                            zero)]
    /\ UNCHANGED <<build, phase, sc, stream, written, inserted, iter, ret, hashed>>

StoreNext == StoreNew \/ StoreInsert

StoreSpec == StoreInit /\ [][StoreNext]_vars

(***************************************************************************)
(* RehashSpec: one caller that builds a table of the keys of RehashKeys on *)
(* small_cuckoo_new(0), writes it and reads it back.                       *)
(***************************************************************************)
RehashInit == Init /\ build = "key"

RehashNew ==
    /\ phase = "start"
    /\ \E size \in ShiftLeftInt(ceil_pow2(0) + 1) : sc' = New(0, size)
    /\ phase' = "built"
    /\ ret' = NoRet
    /\ UNCHANGED <<build, stream, written, inserted, iter, store, hashed>>

RehashInsert ==
    /\ Running
    /\ \E key \in RehashKeys \ InsertedKeys :
         \E zero \in ReallocOutcomes(sc), view \in Hash2Views(build) :
           /\ \E q \in {Insert(sc, key, ValueOf(key), zero, view)} :
                sc' = [q EXCEPT !.table = Compact(@)]
           /\ inserted' = Append(inserted, key)
    /\ ret' = NoRet
    /\ UNCHANGED <<build, phase, stream, written, iter, store, hashed>>

RehashFind ==
    /\ Running
    /\ \E key \in RehashKeys, view \in Hash2Views(build) :
         \E r \in {Find(sc, key, view)} :
           /\ ret' = [op |-> "find", ok |-> r.found, key |-> key, value |-> r.value]
           /\ sc' = FindLeaves(sc, r)
    /\ UNCHANGED <<build, phase, stream, written, inserted, iter, store, hashed>>

RehashNext ==
    \/ RehashNew
    \/ RehashInsert
    \/ RehashFind
    \/ small_cuckoo_serialize
    \/ small_cuckoo_deserialize

RehashSpec == RehashInit /\ [][RehashNext]_vars

(***************************************************************************)
(* HashSpec: hash_1 and hash_2 called once, on a table_size the program    *)
(* can reach with a defined shift and on a key.                            *)
(***************************************************************************)
\* The powers of two from 2 to the largest table calloc grants, doubled.
HashSizes == {Pow2(e) : e \in 1 .. MaxTableLog2 + 1}

K64 == <<65535, 65535, 65535, 65535>>   \* 0xffffffffffffffff

HashKeys == TabulatedKeys \cup {K64}

HashInit == Init

HashCall ==
    /\ ~hashed.called
    /\ \E n \in HashSizes, key \in HashKeys, view \in Hash2Views(build) :
         hashed' = [called |-> TRUE, n |-> n, key |-> key,
                    h1 |-> hash_1(n, key),
                    h2 |-> hash_2(n, Hash2Reads(key, view))]
    /\ UNCHANGED <<build, phase, sc, stream, written, inserted, iter, ret, store>>

HashNext == HashCall

HashSpec == HashInit /\ [][HashNext]_vars

(***************************************************************************)
(* What the claims speak of.                                               *)
(***************************************************************************)
\* The build reads the key in hash_2, small_cuckoo_new's shift was defined,
\* and the caller has not started to iterate.
Plain == build = "key" /\ sc.table_size >= 2 /\ iter.made = 0

\* No small_cuckoo_insert was called after small_cuckoo_deserialize.
JustLoaded ==
    phase = "loaded" /\ sc.status = "ok" /\ Len(inserted) = written.n_entries - 1

Live(p) == 1 .. p.n_entries - 1

PairAt(p, j) == <<p.entries[j].key, p.entries[j].value>>

Pairs(p) == {PairAt(p, j) : j \in Live(p)}

\* How many live entries of p hold the pair x.
Copies(p, x) == Cardinality({j \in Live(p) : PairAt(p, j) = x})

SameMultiset(p, q) ==
    \A x \in Pairs(p) \cup Pairs(q) : Copies(p, x) = Copies(q, x)

InsertedPairs == {<<k, ValueOf(k)>> : k \in InsertedKeys}

Yielded(seq) == {seq[j] : j \in 1 .. Len(seq)}

IsPowerOfTwo(n) == \E e \in 0 .. MaxTableLog2 + 1 : n = Pow2(e)

\* The first four bytes of the field at offset o are the low 32 bits of x.
HoldsLow32(bytes, o, x) ==
    /\ bytes[o + 1] + 256 * bytes[o + 2] = x[1]
    /\ bytes[o + 3] + 256 * bytes[o + 4] = x[2]

(***************************************************************************)
(* C1: on a table made by small_cuckoo_new, after inserts of pairwise      *)
(* distinct keys every small_cuckoo_insert has returned and                *)
(* small_cuckoo_find on an inserted key returns true with the value the    *)
(* key was inserted with.                                                  *)
(***************************************************************************)
C1_InsertedKeysAreFound ==
    (phase = "built" /\ Plain) =>
        /\ sc.status = "ok"
        /\ (ret.op = "find" /\ ret.key \in InsertedKeys) =>
               (ret.ok /\ ret.value = ValueOf(ret.key))

(***************************************************************************)
(* C2: on every table, built or rebuilt by small_cuckoo_deserialize,       *)
(* small_cuckoo_find on a key that was never inserted returns false.       *)
(***************************************************************************)
C2_AbsentKeyIsNotFound ==
    (phase \in {"built", "loaded"} /\ Plain /\ ret.op = "find"
        /\ ret.key \notin InsertedKeys) => ~ret.ok

(***************************************************************************)
(* C3: the table rebuilt from the serialization of T holds the same        *)
(* multiset of (key, value) pairs as T, and small_cuckoo_find on each key  *)
(* of T returns true with the value T holds for it.                        *)
(***************************************************************************)
C3_RoundTripKeepsPairs ==
    (JustLoaded /\ Plain) =>
        /\ SameMultiset(sc, written)
        /\ (ret.op = "find" /\ ret.key \in InsertedKeys) =>
               (ret.ok /\ ret.value = ValueOf(ret.key))

C5_LoopYieldsEachPairOnce ==
    (phase = "built" /\ build = "key" /\ sc.table_size >= 2
        /\ iter.live /\ iter.loop
        /\ sc.status \in {"ok", "hang:has_next"}) =>
        /\ sc.status = "ok"
        /\ Len(iter.yielded) <= sc.n_entries - 1
        /\ (ret.op = "has_next" /\ ~ret.ok) =>
              /\ Yielded(iter.yielded) = InsertedPairs
              /\ Len(iter.yielded) = Len(inserted)
              /\ iter.made = 2 => Yielded(iter.first) = Yielded(iter.yielded)

(***************************************************************************)
(* C6: every call of insert ends with the index placed: the loop, the      *)
(* doubling and the retry reach an empty slot after finitely many          *)
(* doublings, so small_cuckoo_insert never ends in calloc's failure.       *)
(***************************************************************************)
C6_InsertPlacesTheIndex ==
    (phase = "built" /\ Plain) => sc.status # "abort:calloc"

(***************************************************************************)
(* C7 (StoreSpec): for a hint small_cuckoo_new's shift is defined for,     *)
(* each of the first 65,534 calls of small_cuckoo_insert returns having    *)
(* written at a nonzero index below the length of the entry store, and     *)
(* entries_len never becomes smaller.                                      *)
(***************************************************************************)
C7_IndexBelowCapacity ==
    (store.status # "unused" /\ store.calls > 0) =>
        /\ store.status = "ok"
        /\ store.i > 0
        /\ store.i < store.entries_alloc
        /\ store.entries_len >= store.was_len

(***************************************************************************)
(* C8: once constructed or rebuilt, table_size is a power of two and at    *)
(* least 2.                                                                *)
(***************************************************************************)
C8_TableSizeIsPowerOfTwo ==
    phase \in {"built", "saved", "loaded"} =>
        (sc.table_size >= 2 /\ IsPowerOfTwo(sc.table_size))

(***************************************************************************)
(* C9: the table rebuilt from the serialization of T has the table_size    *)
(* and the slot table of T.                                                *)
(***************************************************************************)
C9_RoundTripKeepsLayout ==
    (JustLoaded /\ Plain) =>
        /\ sc.table_size = written.table_size
        /\ sc.table = written.table

(***************************************************************************)
(* C10: small_cuckoo_iter_next called with no occupied slot at or after    *)
(* iter->i yields nothing and does not return: the program ends in the     *)
(* abort of ENSURE(false) (or, at the least, stays in the call).           *)
(***************************************************************************)
C10_NextPastTheEndAborts ==
    [][(small_cuckoo_iter_next /\ phase = "built" /\ build = "key"
            /\ Ahead(sc, iter.i) = {})
        => sc'.status \in {"abort:next", "hang:next"}]_vars

\* The fields of struct small_cuckoo and the contents of its two arrays.
TableOf(p) ==
    <<p.table_size, p.table, p.n_entries, p.entries_len, p.entries,
      p.table_alloc, p.entries_alloc>>

(***************************************************************************)
(* C11: small_cuckoo_find, small_cuckoo_iter_has_next and                  *)
(* small_cuckoo_iter_next leave table_size, every slot of the slot table,  *)
(* n_entries, entries_len and every stored pair as they were and allocate  *)
(* nothing; find leaves the iterator alone, and has_next and next leave    *)
(* the iterator on the same small_cuckoo.                                  *)
(***************************************************************************)
C11_ReadersLeaveTheTable ==
    [][(small_cuckoo_find \/ small_cuckoo_iter_has_next \/ small_cuckoo_iter_next)
        => /\ TableOf(sc') = TableOf(sc)
           /\ small_cuckoo_find => iter' = iter
           /\ iter'.live = iter.live /\ iter'.made = iter.made]_vars

\* small_cuckoo_find has found a key of a table that holds two pairs, or
\* small_cuckoo_iter_next has yielded one.
C11_ReadATable ==
    /\ sc.status = "ok"
    /\ sc.n_entries = 3
    /\ Cardinality(Occupied(sc.table)) = 2
    /\ ret.ok
    /\ ret.op \in {"find", "next"}

(***************************************************************************)
(* C12: on a table made by small_cuckoo_new(0) the first                   *)
(* small_cuckoo_insert returns, leaves table_size at 2, and                *)
(* small_cuckoo_find then finds the key with its value.                    *)
(***************************************************************************)
C12_FirstInsertFitsHintZero ==
    [][(small_cuckoo_insert /\ phase = "built"
            /\ sc.n_entries = 1 /\ sc.entries_len = 1)
        => /\ sc'.status = "ok"
           /\ sc.table_size = 2
           /\ sc'.table_size = sc.table_size
           /\ \A view \in Hash2Views(build) :
                /\ Find(sc', inserted'[1], view).status = "ok"
                /\ Find(sc', inserted'[1], view).found
                /\ Find(sc', inserted'[1], view).value = ValueOf(inserted'[1])]_vars

\* The first pair was inserted into the table of small_cuckoo_new(0) and
\* small_cuckoo_find has found it.
C12_FoundFirstPair ==
    /\ phase = "built"
    /\ sc.status = "ok"
    /\ Len(inserted) = 1
    /\ sc.n_entries = 2
    /\ sc.entries_len = 2
    /\ sc.table_size = 2
    /\ ret.op = "find" /\ ret.key = inserted[1] /\ ret.ok

\* Slot s of p holds a live entry index whose key the selector of the
\* parity of s sends to s.
SlotHoldsItsKey(p, s) ==
    /\ p.table[s] \in Live(p)
    /\ KeyReadable(p, p.table[s])
    /\ s % 2 = 0 => H1(p.table_size, p.entries[p.table[s]].key) = s
    /\ s % 2 = 1 => H2(p.table_size, p.entries[p.table[s]].key) = s

\* The slots of p that hold entry index j.
SlotsOf(p, j) == {s \in Occupied(p.table) : p.table[s] = j}

(***************************************************************************)
(* C13: between calls, every nonzero slot s of a table holds an entry      *)
(* index i with 1 <= i < n_entries whose key hash_1 sends to s when s is   *)
(* even and hash_2 sends to s when s is odd, and every live index is in    *)
(* exactly one slot.                                                       *)
(***************************************************************************)
C13_SlotsHoldTheirKeys ==
    (Running /\ sc.table_size >= 2) =>
        /\ \A s \in Occupied(sc.table) : SlotHoldsItsKey(sc, s)
        /\ \A j \in Live(sc) : Cardinality(SlotsOf(sc, j)) = 1

(***************************************************************************)
(* C14 (RehashSpec): double_size reads only the slots of the old slot      *)
(* table, 0 .. old table_size - 1, also when a reinsertion it makes        *)
(* doubles the table again.                                                *)
(***************************************************************************)
C14_DoublingReadsTheOldTable == sc.status # "ub:prev_table"

(***************************************************************************)
(* C15 as stated: one run of insert's loop at a given table_size kicks at  *)
(* most 20 occupants out of their slots before double_size is called.      *)
(***************************************************************************)
C15_TwentyEvictionSteps ==
    (phase = "built" /\ sc.table_size >= 2) => sc.kicks <= MAX_LOOPS

(***************************************************************************)
(* C15 amended: one run of insert's loop makes at most MAX_LOOPS = 20      *)
(* rounds of two eviction steps each, X(hash_1) and X(hash_2), so it kicks *)
(* at most 40 occupants out; double_size is called only after all 40 steps *)
(* found their slot occupied, and a call that does not double has returned *)
(* at a step whose slot was empty, before the 40th occupant was taken.     *)
(***************************************************************************)
C15_TwentyRoundsOfTwoSteps ==
    [][(small_cuckoo_insert /\ phase = "built" /\ sc.table_size >= 2)
        => /\ sc'.kicks <= 2 * MAX_LOOPS
           /\ (sc'.table_size # sc.table_size \/ sc'.status = "abort:calloc")
                 => sc'.kicks = 2 * MAX_LOOPS
           /\ (sc'.table_size = sc.table_size /\ sc'.status = "ok")
                 => sc'.kicks < 2 * MAX_LOOPS]_vars

\* The third insert into the table of small_cuckoo_new(0) has doubled the
\* table once, after a run of the loop that kicked 40 occupants out.
C15_GrewAfterFortySteps ==
    /\ phase = "built"
    /\ sc.status = "ok"
    /\ sc.n_entries = 4
    /\ sc.table_size = 4
    /\ sc.kicks = 2 * MAX_LOOPS

(***************************************************************************)
(* C16: small_cuckoo_deserialize places the indices read from the stream   *)
(* into a slot table that starts with every slot 0, so the table it        *)
(* returns holds every live index 1 .. n_entries - 1 in exactly one slot   *)
(* and no other nonzero value.                                             *)
(***************************************************************************)
C16_RebuiltFromZeroedSlots ==
    (JustLoaded /\ sc.table_size >= 2) =>
        /\ \A s \in Occupied(sc.table) : sc.table[s] \in Live(sc)
        /\ \A j \in Live(sc) : Cardinality(SlotsOf(sc, j)) = 1

(***************************************************************************)
(* C17: on every table, the one small_cuckoo_deserialize returns included, *)
(* n_entries <= entries_len and entries_len is the allocated length of     *)
(* entries, so that small_cuckoo_insert on a rebuilt table neither stops   *)
(* in realloc nor writes outside entries.                                  *)
(***************************************************************************)
C17_CountWithinCapacity ==
    (phase \in {"built", "saved", "loaded"} /\ sc.table_size >= 2) =>
        /\ sc.status \notin {"abort:realloc", "abort:ensure", "ub:entries"}
        /\ sc.status = "ok" =>
              /\ sc.n_entries <= sc.entries_len
              /\ sc.entries_len = sc.entries_alloc

(***************************************************************************)
(* C18: small_cuckoo_iter_has_next answers whether an occupied slot is     *)
(* left at or after iter->i and consumes none, so a has_next that follows  *)
(* a has_next gives the same answer; small_cuckoo_iter_next yields the     *)
(* first occupied slot at or after iter->i and leaves iter->i just past    *)
(* it, so the slots are visited in strictly increasing order.              *)
(***************************************************************************)
C18_IteratorMovesForward ==
    [][/\ (small_cuckoo_iter_has_next /\ phase = "built" /\ build = "key")
            => /\ sc'.status = "ok"
               /\ ret'.ok = (Ahead(sc, iter.i) # {})
               /\ Ahead(sc, iter'.i) = Ahead(sc, iter.i)
               /\ ret.op = "has_next" => ret'.ok = ret.ok
       /\ (small_cuckoo_iter_next /\ phase = "built" /\ build = "key"
              /\ sc'.status = "ok")
            => /\ Ahead(sc, iter.i) # {}
               /\ iter'.i = Least(Ahead(sc, iter.i)) + 1
               /\ iter'.i > iter.i]_vars

(***************************************************************************)
(* C19: a small_cuckoo_insert that returns, whether or not it doubled the  *)
(* entry store or the slot table, leaves the pair at every entry index     *)
(* that was live before it as it was, and stores the new pair at the index *)
(* that n_entries had before the call.                                     *)
(***************************************************************************)
C19_InsertKeepsEarlierPairs ==
    [][(small_cuckoo_insert /\ sc'.status = "ok")
        => /\ sc'.n_entries = sc.n_entries + 1
           /\ sc'.entries[sc.n_entries] =
                 [key |-> inserted'[Len(inserted')],
                  value |-> ValueOf(inserted'[Len(inserted')])]
           /\ \A j \in Live(sc) : sc'.entries[j] = sc.entries[j]]_vars

\* The third insert into the table of small_cuckoo_new(0) has returned: the
\* entry store was doubled three times and the slot table once.
C19_ThirdPairAfterGrowth ==
    /\ phase = "built"
    /\ sc.status = "ok"
    /\ sc.n_entries = 4
    /\ sc.entries_len = 8
    /\ sc.table_size = 4
    /\ \A j \in 1 .. 3 : PairAt(sc, j) = <<inserted[j], ValueOf(inserted[j])>>

(***************************************************************************)
(* C20 (HashSpec): for a table_size n that is a power of two and at least  *)
(* 2 and for every key, hash_1(n, key) as returned, a uint16_t, is even    *)
(* and in 0 .. n - 1, hash_2(n, key) is odd and in 0 .. n - 1, and the two *)
(* are different slots.                                                    *)
(***************************************************************************)
C20_SelectorsKeepParityAndRange ==
    hashed.called =>
        /\ hashed.h1 % 2 = 0
        /\ hashed.h1 >= 0 /\ hashed.h1 < hashed.n /\ hashed.h1 < W16
        /\ hashed.h2 % 2 = 1
        /\ hashed.h2 >= 0 /\ hashed.h2 < hashed.n /\ hashed.h2 < W16
        /\ hashed.h1 # hashed.h2

\* hash_1 was called with table_size 131072 on a key whose masked hash,
\* shifted left, does not fit the uint16_t it is returned in.
C20_HashedPastSixteenBits ==
    /\ hashed.called
    /\ hashed.n = 2 * W16
    /\ larsons_hash(hashed.key) * 2 >= W16
    /\ hashed.h1 = larsons_hash(hashed.key) * 2 - W16

=============================================================================
